---- MODULE Spec2Model ----
(***************************************************************************)
(* AVLTree (src/AVLTree.h, src/AVLTree.cpp): a map from std::string keys   *)
(* to size_t values kept in an AVL tree.                                   *)
(*                                                                         *)
(* A subtree is a value: Nil for a null AVLNode*, otherwise a record with  *)
(* the five fields of AVLNode.  A function taking AVLNode*& returns the    *)
(* node the slot holds afterwards together with the function's result.     *)
(* A std::string is the sequence of its character codes.                   *)
(***************************************************************************)
EXTENDS Integers, Sequences, FiniteSets, TLC

(***************************************************************************)
(* Bounds of the model.                                                    *)
(*   NumKeys       keys of Spec and of SpecAscending                       *)
(*   NumMapKeys    keys of SpecMap, each inserted with NumValues values    *)
(*   NumQueryKeys  keys and range bounds of SpecQuery                      *)
(*   NumCountKeys  keys of SpecCount and of SpecIndex, MaxRemovals the     *)
(*                 successful removes of SpecCount                         *)
(*   NumCopyKeys   keys of SpecCopy                                        *)
(***************************************************************************)
NumKeys == 7
NumMapKeys == 3
NumValues == 2
NumQueryKeys == 5
NumCountKeys == 4
NumCopyKeys == 4
MaxRemovals == 2

\* "10","5","15","3","7","12","20","9","1","100": std::string orders them
\* "1" < "10" < "100" < "12" < "15" < "20" < "3" < "5" < "7" < "9".
KeyPool ==
  << <<49, 48>>, <<53>>, <<49, 53>>, <<51>>, <<55>>, <<49, 50>>, <<50, 48>>,
     <<57>>, <<49>>, <<49, 48, 48>> >>

FirstKeys(n) == { KeyPool[i] : i \in 1..n }
KeySet == FirstKeys(NumKeys)
MapKeySet == FirstKeys(NumMapKeys)
QueryKeySet == FirstKeys(NumQueryKeys)
CountKeySet == FirstKeys(NumCountKeys)
CopyKeySet == FirstKeys(NumCopyKeys)
Values == 1..NumValues

\* Where one value per key is enough, the key KeyPool[i] is inserted with i.
EntryValue(k) == CHOOSE i \in 1..Len(KeyPool) : KeyPool[i] = k

Max(a, b) == IF a >= b THEN a ELSE b

(***************************************************************************)
(* std::string comparison (operator< and operator> of KeyType).            *)
(***************************************************************************)
StrLess(a, b) ==
  \E i \in 1..Len(b) :
     /\ i <= Len(a) + 1
     /\ \A j \in 1..(i - 1) : a[j] = b[j]
     /\ (i = Len(a) + 1 \/ a[i] < b[i])

StrGreater(a, b) == StrLess(b, a)

(***************************************************************************)
(* AVLNode.                                                                *)
(***************************************************************************)
Nil == [nil |-> TRUE]

AVLNode(k, v) ==
  [key |-> k, value |-> v, height |-> 1, left |-> Nil, right |-> Nil]

numChildren(n) ==
  (IF n.left # Nil THEN 1 ELSE 0) + (IF n.right # Nil THEN 1 ELSE 0)

updateHeight(n) ==
  LET leftHeight  == IF n.left # Nil THEN n.left.height ELSE 0
      rightHeight == IF n.right # Nil THEN n.right.height ELSE 0
  IN  [n EXCEPT !.height = 1 + Max(leftHeight, rightHeight)]

getBalance(n) ==
  LET leftHeight  == IF n.left # Nil THEN n.left.height ELSE 0
      rightHeight == IF n.right # Nil THEN n.right.height ELSE 0
  IN  leftHeight - rightHeight

(***************************************************************************)
(* Rotations and rebalancing.  rotateLeft dereferences node->right and     *)
(* rotateRight node->left without a null check; on a null child the        *)
(* operators yield NullDeref.                                              *)
(***************************************************************************)
NullDeref == [nil |-> FALSE, crashed |-> TRUE]

\* rotateLeft that recomputes the height of the new subtree root before the
\* height of the demoted node.
rotateLeft_rootFirst(node) ==
  IF node.right = Nil THEN NullDeref
  ELSE LET newRoot == node.right
           n0 == [node EXCEPT !.right = newRoot.left]
           r1 == updateHeight([newRoot EXCEPT !.left = n0])
       IN  [r1 EXCEPT !.left = updateHeight(n0)]

rotateLeft(node) ==
  IF node.right = Nil THEN NullDeref
  ELSE LET newRoot == node.right
           n1 == updateHeight([node EXCEPT !.right = newRoot.left])
       IN  updateHeight([newRoot EXCEPT !.left = n1])

rotateRight(node) ==
  IF node.left = Nil THEN NullDeref
  ELSE LET newRoot == node.left
           n1 == updateHeight([node EXCEPT !.left = newRoot.right])
       IN  updateHeight([newRoot EXCEPT !.right = n1])

\* balanceNode that already rotates at a balance factor of +1 or -1.
balanceNode_eager(node) ==
  IF node = Nil THEN node
  ELSE LET balance == getBalance(node)
       IN  IF balance >= 1
             THEN IF node.left # Nil /\ getBalance(node.left) < 0
                    THEN rotateRight([node EXCEPT !.left = rotateLeft(node.left)])
                    ELSE rotateRight(node)
           ELSE IF balance <= -1
             THEN IF node.right # Nil /\ getBalance(node.right) > 0
                    THEN rotateLeft([node EXCEPT !.right = rotateRight(node.right)])
                    ELSE rotateLeft(node)
           ELSE node

\* balanceNode without the check of the child's balance: always one rotation.
balanceNode_singleOnly(node) ==
  IF node = Nil THEN node
  ELSE LET balance == getBalance(node)
       IN  IF balance > 1 THEN rotateRight(node)
           ELSE IF balance < -1 THEN rotateLeft(node)
           ELSE node

\* balanceNode that never rotates.
balanceNode_never(node) == node

\* balanceNode that takes the double rotation also when the child on the
\* heavy side has a balance factor of zero.
balanceNode_tieDouble(node) ==
  IF node = Nil THEN node
  ELSE LET balance == getBalance(node)
       IN  IF balance > 1
             THEN IF node.left # Nil /\ getBalance(node.left) <= 0
                    THEN rotateRight([node EXCEPT !.left = rotateLeft(node.left)])
                    ELSE rotateRight(node)
           ELSE IF balance < -1
             THEN IF node.right # Nil /\ getBalance(node.right) >= 0
                    THEN rotateLeft([node EXCEPT !.right = rotateRight(node.right)])
                    ELSE rotateLeft(node)
           ELSE node

balanceNode(node) ==
  IF node = Nil THEN node
  ELSE LET balance == getBalance(node)
       IN  IF balance > 1
             THEN IF node.left # Nil /\ getBalance(node.left) < 0
                    THEN rotateRight([node EXCEPT !.left = rotateLeft(node.left)])
                    ELSE rotateRight(node)
           ELSE IF balance < -1
             THEN IF node.right # Nil /\ getBalance(node.right) > 0
                    THEN rotateLeft([node EXCEPT !.right = rotateRight(node.right)])
                    ELSE rotateLeft(node)
           ELSE node

(***************************************************************************)
(* bool AVLTree::insert(AVLNode*& node, key, value).                       *)
(* news counts the AVLNode objects allocated by the call.                  *)
(***************************************************************************)
\* insert that stores the new value in the node of an existing key.
RECURSIVE insert_overwrite(_, _, _)
insert_overwrite(node, key, value) ==
  IF node = Nil
    THEN [node |-> AVLNode(key, value), ret |-> TRUE, news |-> 1]
  ELSE IF StrLess(key, node.key)
    THEN LET r == insert_overwrite(node.left, key, value)
             n1 == [node EXCEPT !.left = r.node]
         IN  IF ~r.ret
               THEN [node |-> n1, ret |-> FALSE, news |-> r.news]
               ELSE [node |-> balanceNode(updateHeight(n1)), ret |-> TRUE,
                     news |-> r.news]
  ELSE IF StrGreater(key, node.key)
    THEN LET r == insert_overwrite(node.right, key, value)
             n1 == [node EXCEPT !.right = r.node]
         IN  IF ~r.ret
               THEN [node |-> n1, ret |-> FALSE, news |-> r.news]
               ELSE [node |-> balanceNode(updateHeight(n1)), ret |-> TRUE,
                     news |-> r.news]
  ELSE [node |-> [node EXCEPT !.value = value], ret |-> FALSE, news |-> 0]

RECURSIVE insert(_, _, _)
insert(node, key, value) ==
  IF node = Nil
    THEN [node |-> AVLNode(key, value), ret |-> TRUE, news |-> 1]
  ELSE IF StrLess(key, node.key)
    THEN LET r == insert(node.left, key, value)
             n1 == [node EXCEPT !.left = r.node]
         IN  IF ~r.ret
               THEN [node |-> n1, ret |-> FALSE, news |-> r.news]
               ELSE [node |-> balanceNode(updateHeight(n1)), ret |-> TRUE,
                     news |-> r.news]
  ELSE IF StrGreater(key, node.key)
    THEN LET r == insert(node.right, key, value)
             n1 == [node EXCEPT !.right = r.node]
         IN  IF ~r.ret
               THEN [node |-> n1, ret |-> FALSE, news |-> r.news]
               ELSE [node |-> balanceNode(updateHeight(n1)), ret |-> TRUE,
                     news |-> r.news]
  ELSE [node |-> node, ret |-> FALSE, news |-> 0]

(***************************************************************************)
(* AVLNode* AVLTree::findMin(AVLNode* node): the left-most node.           *)
(***************************************************************************)
\* findMin without the descent: the subtree's root instead of its left-most node.
findMin_noDescent(node) == node

RECURSIVE findMin(_)
findMin(node) ==
  IF node = Nil THEN Nil
  ELSE IF node.left # Nil THEN findMin(node.left)
  ELSE node

(***************************************************************************)
(* bool AVLTree::remove(AVLNode*& node, key) and                           *)
(* bool AVLTree::removeNode(AVLNode*& node).                               *)
(* deletes counts the AVLNode objects the call deletes.                    *)
(***************************************************************************)
RECURSIVE remove(_, _)
RECURSIVE removeNode(_)
\* remove that recomputes the height on the way back and does not rebalance.
RECURSIVE remove_noRebalance(_, _)
remove_noRebalance(node, key) ==
  IF node = Nil
    THEN [node |-> Nil, ret |-> FALSE, deletes |-> 0]
  ELSE LET r == IF StrLess(key, node.key)
                  THEN LET s == remove_noRebalance(node.left, key)
                       IN  [node |-> [node EXCEPT !.left = s.node],
                            ret |-> s.ret, deletes |-> s.deletes]
                ELSE IF StrGreater(key, node.key)
                  THEN LET s == remove_noRebalance(node.right, key)
                       IN  [node |-> [node EXCEPT !.right = s.node],
                            ret |-> s.ret, deletes |-> s.deletes]
                ELSE removeNode(node)
       IN  IF r.node # Nil
             THEN [node |-> updateHeight(r.node), ret |-> r.ret,
                   deletes |-> r.deletes]
             ELSE r

remove(node, key) ==
  IF node = Nil
    THEN [node |-> Nil, ret |-> FALSE, deletes |-> 0]
  ELSE LET r == IF StrLess(key, node.key)
                  THEN LET s == remove(node.left, key)
                       IN  [node |-> [node EXCEPT !.left = s.node],
                            ret |-> s.ret, deletes |-> s.deletes]
                ELSE IF StrGreater(key, node.key)
                  THEN LET s == remove(node.right, key)
                       IN  [node |-> [node EXCEPT !.right = s.node],
                            ret |-> s.ret, deletes |-> s.deletes]
                ELSE removeNode(node)
       IN  IF r.node # Nil
             THEN [node |-> balanceNode(updateHeight(r.node)), ret |-> r.ret,
                   deletes |-> r.deletes]
             ELSE r

\* removeNode whose one-child case always splices in the left child.
removeNode_leftOnly(node) ==
  IF node = Nil
    THEN [node |-> Nil, ret |-> FALSE, deletes |-> 0]
  ELSE LET children == numChildren(node)
       IN  IF children = 0
             THEN [node |-> Nil, ret |-> TRUE, deletes |-> 1]
           ELSE IF children = 1
             THEN [node |-> node.left, ret |-> TRUE, deletes |-> 1]
           ELSE LET succ == findMin(node.right)
                    n1 == [node EXCEPT !.key = succ.key, !.value = succ.value]
                    s == remove(n1.right, succ.key)
                IN  [node |-> [n1 EXCEPT !.right = s.node], ret |-> s.ret,
                     deletes |-> s.deletes]

\* removeNode whose two-child case copies the successor's key, not its value.
removeNode_keepValue(node) ==
  IF node = Nil
    THEN [node |-> Nil, ret |-> FALSE, deletes |-> 0]
  ELSE LET children == numChildren(node)
       IN  IF children = 0
             THEN [node |-> Nil, ret |-> TRUE, deletes |-> 1]
           ELSE IF children = 1
             THEN [node |-> IF node.left # Nil THEN node.left ELSE node.right,
                   ret |-> TRUE, deletes |-> 1]
           ELSE LET succ == findMin(node.right)
                    n1 == [node EXCEPT !.key = succ.key]
                    s == remove(n1.right, succ.key)
                IN  [node |-> [n1 EXCEPT !.right = s.node], ret |-> s.ret,
                     deletes |-> s.deletes]

\* removeNode whose two-child case copies the successor into the node and
\* leaves the successor's own node where it is.
removeNode_successorKept(node) ==
  IF node = Nil
    THEN [node |-> Nil, ret |-> FALSE, deletes |-> 0]
  ELSE LET children == numChildren(node)
       IN  IF children = 0
             THEN [node |-> Nil, ret |-> TRUE, deletes |-> 1]
           ELSE IF children = 1
             THEN [node |-> IF node.left # Nil THEN node.left ELSE node.right,
                   ret |-> TRUE, deletes |-> 1]
           ELSE LET succ == findMin(node.right)
                    n1 == [node EXCEPT !.key = succ.key, !.value = succ.value]
                IN  [node |-> n1, ret |-> TRUE, deletes |-> 0]

removeNode(node) ==
  IF node = Nil
    THEN [node |-> Nil, ret |-> FALSE, deletes |-> 0]
  ELSE LET children == numChildren(node)
       IN  IF children = 0
             THEN [node |-> Nil, ret |-> TRUE, deletes |-> 1]
           ELSE IF children = 1
             THEN [node |-> IF node.left # Nil THEN node.left ELSE node.right,
                   ret |-> TRUE, deletes |-> 1]
           ELSE LET succ == findMin(node.right)
                    n1 == [node EXCEPT !.key = succ.key, !.value = succ.value]
                    s == remove(n1.right, succ.key)
                IN  [node |-> [n1 EXCEPT !.right = s.node], ret |-> s.ret,
                     deletes |-> s.deletes]

(***************************************************************************)
(* The calls of balanceNode made by one recursive insert or remove: the    *)
(* set of the nodes passed, each as it is when balanceNode is entered      *)
(* (subtrees below already rebalanced, height just recomputed).            *)
(***************************************************************************)
RECURSIVE insertBalanceArgs(_, _, _)
insertBalanceArgs(node, key, value) ==
  IF node = Nil THEN {}
  ELSE IF StrLess(key, node.key)
    THEN LET r == insert(node.left, key, value)
         IN  insertBalanceArgs(node.left, key, value) \cup
             (IF r.ret THEN {updateHeight([node EXCEPT !.left = r.node])} ELSE {})
  ELSE IF StrGreater(key, node.key)
    THEN LET r == insert(node.right, key, value)
         IN  insertBalanceArgs(node.right, key, value) \cup
             (IF r.ret THEN {updateHeight([node EXCEPT !.right = r.node])} ELSE {})
  ELSE {}

RECURSIVE removeBalanceArgs(_, _)
removeBalanceArgs(node, key) ==
  IF node = Nil THEN {}
  ELSE LET r == IF StrLess(key, node.key)
                  THEN [node EXCEPT !.left = remove(node.left, key).node]
                ELSE IF StrGreater(key, node.key)
                  THEN [node EXCEPT !.right = remove(node.right, key).node]
                ELSE removeNode(node).node
           below == IF StrLess(key, node.key)
                      THEN removeBalanceArgs(node.left, key)
                    ELSE IF StrGreater(key, node.key)
                      THEN removeBalanceArgs(node.right, key)
                    ELSE IF numChildren(node) = 2
                      THEN removeBalanceArgs(node.right, findMin(node.right).key)
                    ELSE {}
       IN  below \cup (IF r # Nil THEN {updateHeight(r)} ELSE {})

(***************************************************************************)
(* The nodes balanceNode(node) passes to rotateLeft and to rotateRight.    *)
(***************************************************************************)
rotateLeftArgs(node) ==
  IF node = Nil THEN {}
  ELSE LET balance == getBalance(node)
       IN  IF balance > 1
             THEN IF node.left # Nil /\ getBalance(node.left) < 0
                    THEN {node.left}
                    ELSE {}
           ELSE IF balance < -1
             THEN IF node.right # Nil /\ getBalance(node.right) > 0
                    THEN {[node EXCEPT !.right = rotateRight(node.right)]}
                    ELSE {node}
           ELSE {}

rotateRightArgs(node) ==
  IF node = Nil THEN {}
  ELSE LET balance == getBalance(node)
       IN  IF balance > 1
             THEN IF node.left # Nil /\ getBalance(node.left) < 0
                    THEN {[node EXCEPT !.left = rotateLeft(node.left)]}
                    ELSE {node}
           ELSE IF balance < -1
             THEN IF node.right # Nil /\ getBalance(node.right) > 0
                    THEN {node.right}
                    ELSE {}
           ELSE {}

(***************************************************************************)
(* Lookups: contains(node, key), getNode(node, key), get(key).             *)
(* std::optional<ValueType> is NullOpt or Some(v).                         *)
(***************************************************************************)
NullOpt == [has |-> FALSE]
Some(v) == [has |-> TRUE, value |-> v]

RECURSIVE contains(_, _)
contains(node, key) ==
  IF node = Nil THEN FALSE
  ELSE IF StrLess(key, node.key) THEN contains(node.left, key)
  ELSE IF StrGreater(key, node.key) THEN contains(node.right, key)
  ELSE TRUE

\* getNode with the two descents swapped.
RECURSIVE getNode_mirrored(_, _)
getNode_mirrored(node, key) ==
  IF node = Nil THEN Nil
  ELSE IF StrLess(key, node.key) THEN getNode_mirrored(node.right, key)
  ELSE IF StrGreater(key, node.key) THEN getNode_mirrored(node.left, key)
  ELSE node

RECURSIVE getNode(_, _)
getNode(node, key) ==
  IF node = Nil THEN Nil
  ELSE IF StrLess(key, node.key) THEN getNode(node.left, key)
  ELSE IF StrGreater(key, node.key) THEN getNode(node.right, key)
  ELSE node

get(rootNode, key) ==
  LET found == getNode(rootNode, key)
  IN  IF found # Nil THEN Some(found.value) ELSE NullOpt

(***************************************************************************)
(* void findRange(node, lowKey, highKey, result) and                       *)
(* void getKeys(node, result): result is the vector after the call.        *)
(***************************************************************************)
\* findRange whose inclusion test leaves out a key equal to highKey.
RECURSIVE findRange_openHigh(_, _, _, _)
findRange_openHigh(node, lowKey, highKey, result) ==
  IF node = Nil THEN result
  ELSE LET r1 == IF StrGreater(node.key, lowKey)
                   THEN findRange_openHigh(node.left, lowKey, highKey, result)
                   ELSE result
           r2 == IF ~StrLess(node.key, lowKey) /\ StrLess(node.key, highKey)
                   THEN Append(r1, node.value)
                   ELSE r1
       IN  IF StrLess(node.key, highKey)
             THEN findRange_openHigh(node.right, lowKey, highKey, r2)
             ELSE r2

\* findRange that appends the node's value before it visits the left subtree.
RECURSIVE findRange_preOrder(_, _, _, _)
findRange_preOrder(node, lowKey, highKey, result) ==
  IF node = Nil THEN result
  ELSE LET r0 == IF ~StrLess(node.key, lowKey) /\ ~StrGreater(node.key, highKey)
                   THEN Append(result, node.value)
                   ELSE result
           r1 == IF StrGreater(node.key, lowKey)
                   THEN findRange_preOrder(node.left, lowKey, highKey, r0)
                   ELSE r0
       IN  IF StrLess(node.key, highKey)
             THEN findRange_preOrder(node.right, lowKey, highKey, r1)
             ELSE r1

RECURSIVE findRange(_, _, _, _)
findRange(node, lowKey, highKey, result) ==
  IF node = Nil THEN result
  ELSE LET r1 == IF StrGreater(node.key, lowKey)
                   THEN findRange(node.left, lowKey, highKey, result)
                   ELSE result
           r2 == IF ~StrLess(node.key, lowKey) /\ ~StrGreater(node.key, highKey)
                   THEN Append(r1, node.value)
                   ELSE r1
       IN  IF StrLess(node.key, highKey)
             THEN findRange(node.right, lowKey, highKey, r2)
             ELSE r2

RECURSIVE getKeys(_, _)
getKeys(node, result) ==
  IF node = Nil THEN result
  ELSE getKeys(node.right, Append(getKeys(node.left, result), node.key))

getHeight(rootNode) == IF rootNode # Nil THEN rootNode.height ELSE 0

(***************************************************************************)
(* copyTree(other) and clearTree(node); clearTree yields the number of     *)
(* AVLNode objects it deletes, CountNodes the number copyTree allocates.   *)
(***************************************************************************)
\* copyTree without "n->height = other->height": every copy keeps height 1.
RECURSIVE copyTree_freshHeight(_)
copyTree_freshHeight(other) ==
  IF other = Nil THEN Nil
  ELSE LET n == AVLNode(other.key, other.value)
       IN  [n EXCEPT !.left = copyTree_freshHeight(other.left),
                     !.right = copyTree_freshHeight(other.right)]

\* copyTree that hangs the copy of the right subtree on the left and the copy
\* of the left subtree on the right.
RECURSIVE copyTree_mirrored(_)
copyTree_mirrored(other) ==
  IF other = Nil THEN Nil
  ELSE LET n == [AVLNode(other.key, other.value) EXCEPT !.height = other.height]
       IN  [n EXCEPT !.left = copyTree_mirrored(other.right),
                     !.right = copyTree_mirrored(other.left)]

RECURSIVE copyTree(_)
copyTree(other) ==
  IF other = Nil THEN Nil
  ELSE LET n == [AVLNode(other.key, other.value) EXCEPT !.height = other.height]
       IN  [n EXCEPT !.left = copyTree(other.left), !.right = copyTree(other.right)]

RECURSIVE clearTree(_)
clearTree(node) ==
  IF node = Nil THEN 0
  ELSE clearTree(node.left) + clearTree(node.right) + 1

RECURSIVE CountNodes(_)
CountNodes(node) ==
  IF node = Nil THEN 0
  ELSE 1 + CountNodes(node.left) + CountNodes(node.right)

(***************************************************************************)
(* State.                                                                  *)
(*   root, treeSize : the two fields of every constructed AVLTree object   *)
(*   heapNodes      : AVLNode objects allocated with new and not deleted   *)
(*   ret            : the last public call and what it returned            *)
(*   pre            : root, treeSize and heapNodes as they were when the   *)
(*                    last public call began                               *)
(* History kept beside the program:                                        *)
(*   ref, refRet    : a reference map (set of <<key, value>>) per object,  *)
(*                    and the reference's result of the last call          *)
(*   everInserted   : the distinct keys ever inserted into object "A"      *)
(*   insertions, removals : successful insert / remove calls on "A"        *)
(***************************************************************************)
VARIABLES root, treeSize, heapNodes, ret, pre, ref, refRet,
          everInserted, insertions, removals

vars == <<root, treeSize, heapNodes, ret, pre, ref, refRet,
          everInserted, insertions, removals>>
prog == <<root, treeSize, heapNodes>>
hist == <<everInserted, insertions, removals>>

Objects == DOMAIN root

Snapshot == [root |-> root, treeSize |-> treeSize, heapNodes |-> heapNodes]

\* AVLTree A;  (default constructor)
Init ==
  /\ root = [t \in {"A"} |-> Nil]
  /\ treeSize = [t \in {"A"} |-> 0]
  /\ heapNodes = 0
  /\ ret = [op |-> "AVLTree", obj |-> "A", args |-> <<>>, result |-> TRUE]
  /\ pre = [root |-> root, treeSize |-> treeSize, heapNodes |-> heapNodes]
  /\ ref = [t \in {"A"} |-> {}]
  /\ refRet = TRUE
  /\ everInserted = {}
  /\ insertions = 0
  /\ removals = 0

RefKeys(m) == { p[1] : p \in m }

(***************************************************************************)
(* bool AVLTree::insert(key, value)                                        *)
(***************************************************************************)
\* insert(key, value) with ++treeSize outside the "if (inserted)".
InsertCall_alwaysCount(t, k, v) ==
  LET r == insert(root[t], k, v)
  IN  /\ root' = [root EXCEPT ![t] = r.node]
      /\ treeSize' = [treeSize EXCEPT ![t] = @ + 1]
      /\ heapNodes' = heapNodes + r.news
      /\ ret' = [op |-> "insert", obj |-> t, args |-> <<k, v>>, result |-> r.ret]
      /\ pre' = Snapshot
      /\ ref' = [ref EXCEPT ![t] = IF k \in RefKeys(@) THEN @ ELSE @ \cup {<<k, v>>}]
      /\ refRet' = (k \notin RefKeys(ref[t]))

InsertCall(t, k, v) ==
  LET r == insert(root[t], k, v)
  IN  /\ root' = [root EXCEPT ![t] = r.node]
      /\ treeSize' = [treeSize EXCEPT ![t] = IF r.ret THEN @ + 1 ELSE @]
      /\ heapNodes' = heapNodes + r.news
      /\ ret' = [op |-> "insert", obj |-> t, args |-> <<k, v>>, result |-> r.ret]
      /\ pre' = Snapshot
      /\ ref' = [ref EXCEPT ![t] = IF k \in RefKeys(@) THEN @ ELSE @ \cup {<<k, v>>}]
      /\ refRet' = (k \notin RefKeys(ref[t]))

Insert(t, k, v) ==
  /\ InsertCall(t, k, v)
  /\ UNCHANGED hist

(***************************************************************************)
(* bool AVLTree::remove(key)                                               *)
(***************************************************************************)
\* remove(key) without the --treeSize.
RemoveCall_noDecrement(t, k) ==
  LET r == remove(root[t], k)
  IN  /\ root' = [root EXCEPT ![t] = r.node]
      /\ treeSize' = treeSize
      /\ heapNodes' = heapNodes - r.deletes
      /\ ret' = [op |-> "remove", obj |-> t, args |-> <<k>>, result |-> r.ret]
      /\ pre' = Snapshot
      /\ ref' = [ref EXCEPT ![t] = { p \in @ : p[1] # k }]
      /\ refRet' = (k \in RefKeys(ref[t]))

RemoveCall(t, k) ==
  LET r == remove(root[t], k)
  IN  /\ root' = [root EXCEPT ![t] = r.node]
      /\ treeSize' = [treeSize EXCEPT ![t] = IF r.ret THEN @ - 1 ELSE @]
      /\ heapNodes' = heapNodes - r.deletes
      /\ ret' = [op |-> "remove", obj |-> t, args |-> <<k>>, result |-> r.ret]
      /\ pre' = Snapshot
      /\ ref' = [ref EXCEPT ![t] = { p \in @ : p[1] # k }]
      /\ refRet' = (k \in RefKeys(ref[t]))

Remove(t, k) ==
  /\ RemoveCall(t, k)
  /\ UNCHANGED hist

(***************************************************************************)
(* The const member functions: the call is recorded in ret.                *)
(***************************************************************************)
Query(opName, t, a, res) ==
  /\ ret' = [op |-> opName, obj |-> t, args |-> a, result |-> res]
  /\ pre' = Snapshot
  /\ UNCHANGED <<prog, ref, refRet, hist>>

Contains(t, k) == Query("contains", t, <<k>>, contains(root[t], k))
Get(t, k) == Query("get", t, <<k>>, get(root[t], k))
FindRange(t, lo, hi) ==
  Query("findRange", t, <<lo, hi>>, findRange(root[t], lo, hi, <<>>))
Keys(t) == Query("keys", t, <<>>, getKeys(root[t], <<>>))
Size(t) == Query("size", t, <<>>, treeSize[t])
GetHeight(t) == Query("getHeight", t, <<>>, getHeight(root[t]))

(***************************************************************************)
(* ValueType& AVLTree::operator[](key): "return node->value" on the result *)
(* of getNode, the insertion of a missing key being commented out.  With   *)
(* the key stored the result is the reference to the node's value field.   *)
(* With the key missing node is nullptr and node->value is undefined       *)
(* behaviour: the call hands back a reference into the zero page ("wild"), *)
(* or the process ends with a segmentation fault ("crash"), after which    *)
(* no call is made.  Neither outcome touches the tree.                     *)
(***************************************************************************)
Reference(k, v) == [kind |-> "ref", key |-> k, value |-> v]
NullOutcomes == { [kind |-> "wild"], [kind |-> "crash"] }

Index(t, k) ==
  LET node == getNode(root[t], k)
  IN  \E res \in (IF node # Nil THEN {Reference(k, node.value)} ELSE NullOutcomes) :
         Query("operator[]", t, <<k>>, res)

Running == ~(ret.op = "operator[]" /\ ret.result.kind = "crash")

(***************************************************************************)
(* AVLTree B(A);  and  t = u;                                              *)
(***************************************************************************)
\* Copy construction that copies the root pointer: no node is allocated and
\* the new object points at the nodes of the other.
CopyConstruct_shallow(t, other) ==
  /\ t \notin Objects
  /\ other \in Objects
  /\ root' = [x \in Objects \cup {t} |-> IF x = t THEN root[other] ELSE root[x]]
  /\ treeSize' = [x \in Objects \cup {t} |->
                    IF x = t THEN treeSize[other] ELSE treeSize[x]]
  /\ heapNodes' = heapNodes
  /\ ret' = [op |-> "AVLTree", obj |-> t, args |-> <<other>>, result |-> TRUE]
  /\ pre' = Snapshot
  /\ ref' = [x \in Objects \cup {t} |-> IF x = t THEN ref[other] ELSE ref[x]]
  /\ refRet' = TRUE
  /\ UNCHANGED hist

CopyConstruct(t, other) ==
  /\ t \notin Objects
  /\ other \in Objects
  /\ root' = [x \in Objects \cup {t} |->
                IF x = t THEN copyTree(root[other]) ELSE root[x]]
  /\ treeSize' = [x \in Objects \cup {t} |->
                    IF x = t THEN treeSize[other] ELSE treeSize[x]]
  /\ heapNodes' = heapNodes + CountNodes(root[other])
  /\ ret' = [op |-> "AVLTree", obj |-> t, args |-> <<other>>, result |-> TRUE]
  /\ pre' = Snapshot
  /\ ref' = [x \in Objects \cup {t} |-> IF x = t THEN ref[other] ELSE ref[x]]
  /\ refRet' = TRUE
  /\ UNCHANGED hist

Assign(t, other) ==
  /\ t \in Objects
  /\ other \in Objects
  /\ IF t # other
       THEN /\ root' = [root EXCEPT ![t] = copyTree(root[other])]
            /\ treeSize' = [treeSize EXCEPT ![t] = treeSize[other]]
            /\ heapNodes' = heapNodes - clearTree(root[t]) + CountNodes(root[other])
            /\ ref' = [ref EXCEPT ![t] = ref[other]]
       ELSE UNCHANGED <<prog, ref>>
  /\ ret' = [op |-> "operator=", obj |-> t, args |-> <<other>>, result |-> TRUE]
  /\ pre' = Snapshot
  /\ refRet' = TRUE
  /\ UNCHANGED hist

(***************************************************************************)
(* AVLTree t;  (default constructor) and the end of t's lifetime:          *)
(* ~AVLTree() runs clearTree(root), which deletes every node of t, and the *)
(* object with its two fields is gone.                                     *)
(***************************************************************************)
Without(f, t) == [x \in (DOMAIN f) \ {t} |-> f[x]]

Construct(t) ==
  /\ t \notin Objects
  /\ root' = [x \in Objects \cup {t} |-> IF x = t THEN Nil ELSE root[x]]
  /\ treeSize' = [x \in Objects \cup {t} |-> IF x = t THEN 0 ELSE treeSize[x]]
  /\ heapNodes' = heapNodes
  /\ ret' = [op |-> "AVLTree", obj |-> t, args |-> <<>>, result |-> TRUE]
  /\ pre' = Snapshot
  /\ ref' = [x \in Objects \cup {t} |-> IF x = t THEN {} ELSE ref[x]]
  /\ refRet' = TRUE
  /\ UNCHANGED hist

Destroy(t) ==
  /\ t \in Objects
  /\ root' = Without(root, t)
  /\ treeSize' = Without(treeSize, t)
  /\ heapNodes' = heapNodes - clearTree(root[t])
  /\ ret' = [op |-> "~AVLTree", obj |-> t, args |-> <<>>, result |-> TRUE]
  /\ pre' = Snapshot
  /\ ref' = Without(ref, t)
  /\ refRet' = TRUE
  /\ UNCHANGED hist

(***************************************************************************)
(* Spec: insert and remove on one tree.                                    *)
(***************************************************************************)
Next ==
  \/ \E k \in KeySet : Insert("A", k, EntryValue(k))
  \/ \E k \in KeySet : Remove("A", k)

Spec == Init /\ [][Next]_vars

(***************************************************************************)
(* SpecMap: insert, remove, contains and get on one tree, every key with   *)
(* every value.                                                            *)
(***************************************************************************)
NextMap ==
  \/ \E k \in MapKeySet, v \in Values : Insert("A", k, v)
  \/ \E k \in MapKeySet : Remove("A", k)
  \/ \E k \in MapKeySet : Contains("A", k)
  \/ \E k \in MapKeySet : Get("A", k)

SpecMap == Init /\ [][NextMap]_vars

(***************************************************************************)
(* SpecQuery: one tree with its traversals and O(1) observers.             *)
(***************************************************************************)
NextQuery ==
  \/ \E k \in QueryKeySet : Insert("A", k, EntryValue(k))
  \/ \E k \in QueryKeySet : Remove("A", k)
  \/ \E lo \in QueryKeySet, hi \in QueryKeySet : FindRange("A", lo, hi)
  \/ Keys("A")
  \/ Size("A")
  \/ GetHeight("A")

SpecQuery == Init /\ [][NextQuery]_vars

(***************************************************************************)
(* SpecCount: insert and remove on one tree with the call history.         *)
(***************************************************************************)
CountedInsert(k, v) ==
  /\ InsertCall("A", k, v)
  /\ everInserted' = IF ret'.result THEN everInserted \cup {k} ELSE everInserted
  /\ insertions' = IF ret'.result THEN insertions + 1 ELSE insertions
  /\ UNCHANGED removals

CountedRemove(k) ==
  /\ removals < MaxRemovals
  /\ RemoveCall("A", k)
  /\ removals' = IF ret'.result THEN removals + 1 ELSE removals
  /\ UNCHANGED <<everInserted, insertions>>

NextCount ==
  \/ \E k \in CountKeySet : CountedInsert(k, EntryValue(k))
  \/ \E k \in CountKeySet : CountedRemove(k)

SpecCount == Init /\ [][NextCount]_vars

(***************************************************************************)
(* SpecCopy: up to two trees alive at a time, made by default and by copy  *)
(* construction, with assignment in both directions and onto itself, and   *)
(* destroyed.                                                              *)
(***************************************************************************)
ObjectNames == {"A", "B"}

NextCopy ==
  \/ \E t \in Objects, k \in CopyKeySet : Insert(t, k, EntryValue(k))
  \/ \E t \in Objects, k \in CopyKeySet : Remove(t, k)
  \/ \E t \in ObjectNames : Construct(t)
  \/ \E t \in ObjectNames, other \in Objects : CopyConstruct(t, other)
  \/ \E t \in Objects, other \in Objects : Assign(t, other)
  \/ \E t \in Objects : Destroy(t)

SpecCopy == Init /\ [][NextCopy]_vars

(***************************************************************************)
(* Vocabulary of the properties.                                           *)
(***************************************************************************)
RECURSIVE SubNodes(_)
SubNodes(node) ==
  IF node = Nil THEN {}
  ELSE {node} \cup SubNodes(node.left) \cup SubNodes(node.right)

RECURSIVE TrueHeight(_)
TrueHeight(node) ==
  IF node = Nil THEN 0
  ELSE 1 + Max(TrueHeight(node.left), TrueHeight(node.right))

TreeKeys(node) == { x.key : x \in SubNodes(node) }
Pairs(node) == { <<x.key, x.value>> : x \in SubNodes(node) }

StoredHeight(node) == IF node = Nil THEN 0 ELSE node.height

StrLeq(a, b) == a = b \/ StrLess(a, b)

Ascending(seq) ==
  \A i \in 1..Len(seq) : \A j \in 1..Len(seq) : i < j => StrLess(seq[i], seq[j])

\* The keys of S in ascending order.
MinKey(S) == CHOOSE k \in S : \A j \in S : StrLeq(k, j)

RECURSIVE SortedKeys(_)
SortedKeys(S) ==
  IF S = {} THEN <<>>
  ELSE <<MinKey(S)>> \o SortedKeys(S \ {MinKey(S)})

ValueOf(m, k) == (CHOOSE p \in m : p[1] = k)[2]

Mutator == {"insert", "remove"}
Called(opName) == ret.op = opName
Arg(i) == ret.args[i]
Before == pre.root[ret.obj]
After == root[ret.obj]

(***************************************************************************)
(* C1  AVL balance invariant: whenever a public insert or remove has       *)
(* returned, with either result, every node reachable from the root has    *)
(* height(left) - height(right) in {-1, 0, +1}, by the stored heights and  *)
(* by the heights of the subtrees as they are.                             *)
(***************************************************************************)
Balanced(node) ==
  \A x \in SubNodes(node) :
     /\ getBalance(x) \in {-1, 0, 1}
     /\ TrueHeight(x.left) - TrueHeight(x.right) \in {-1, 0, 1}

\* C1: every node of every tree has a balance factor in {-1, 0, +1}.
C1_BalanceInvariant == \A t \in Objects : Balanced(root[t])

\* A remove that did not match the root and yet left a different node at the
\* root: the return path rotated the root.
C1_Witness ==
  /\ Called("remove") /\ ret.result
  /\ Before.key # Arg(1)
  /\ After # Nil /\ After.key # Before.key
  /\ CountNodes(After) >= 4

(***************************************************************************)
(* C2  Order invariant: for every node all keys of its left subtree are    *)
(* smaller and all keys of its right subtree larger than its key, and      *)
(* keys() lists every stored key exactly once, strictly ascending.         *)
(***************************************************************************)
Ordered(node) ==
  \A x \in SubNodes(node) :
     /\ \A k \in TreeKeys(x.left) : StrLess(k, x.key)
     /\ \A k \in TreeKeys(x.right) : StrGreater(k, x.key)

KeysListing(node) ==
  LET out == getKeys(node, <<>>)
  IN  /\ Ascending(out)
      /\ Len(out) = CountNodes(node)
      /\ { out[i] : i \in 1..Len(out) } = TreeKeys(node)

\* C2: every tree is ordered and keys() lists its keys once, ascending.
C2_OrderInvariant ==
  \A t \in Objects : Ordered(root[t]) /\ KeysListing(root[t])

\* A remove that matched a node with two children whose successor was not
\* its right child: the node now carries the successor's key.
C2_Witness ==
  /\ Called("remove") /\ ret.result
  /\ LET m == getNode(Before, Arg(1))
     IN  /\ numChildren(m) = 2
         /\ m.right.left # Nil
         /\ contains(After, findMin(m.right).key)
         /\ ~contains(After, Arg(1))

(***************************************************************************)
(* C3  Height correctness: after any insert, remove, copy construction or  *)
(* assignment every node's stored height is 1 + the larger stored height   *)
(* of its children (0 for an absent child), and getHeight() is the height  *)
(* of the tree, 0 when it is empty.                                        *)
(***************************************************************************)
HeightsCorrect(node) ==
  \A x \in SubNodes(node) :
     x.height = 1 + Max(StoredHeight(x.left), StoredHeight(x.right))

\* C3: stored heights obey the recurrence and getHeight() is the true height.
C3_HeightCorrect ==
  \A t \in Objects :
     /\ HeightsCorrect(root[t])
     /\ getHeight(root[t]) = TrueHeight(root[t])

\* A remove on a copy that did not match the root and yet left a different
\* node at the root: the heights were recomputed through a rotation.
C3_Witness ==
  /\ "B" \in Objects
  /\ Called("remove") /\ ret.result /\ ret.obj = "B"
  /\ Before.key # Arg(1)
  /\ After.key # Before.key
  /\ Before.height = 3 /\ After.height = 2

(***************************************************************************)
(* C4  Size invariant: size() is the number of nodes reachable from the    *)
(* root after insert, remove, copy construction and assignment; an insert  *)
(* or remove call changes the counter of its tree by +1 exactly when       *)
(* insert returns true, by -1 exactly when remove returns true, and not    *)
(* at all otherwise, and never the counter of another tree.                *)
(***************************************************************************)
SizeDelta ==
  IF Called("insert") /\ ret.result THEN 1
  ELSE IF Called("remove") /\ ret.result THEN -1
  ELSE 0

\* C4: treeSize counts the nodes and moves by the result of insert/remove only.
C4_SizeInvariant ==
  /\ \A t \in Objects : treeSize[t] = CountNodes(root[t])
  /\ ret.op \in Mutator =>
        \A t \in Objects :
           treeSize[t] = pre.treeSize[t] + (IF t = ret.obj THEN SizeDelta ELSE 0)

\* A rejected insert into a copy that holds two or more entries.
C4_Witness ==
  /\ "B" \in Objects
  /\ Called("insert") /\ ~ret.result /\ ret.obj = "B"
  /\ treeSize["B"] >= 2
(***************************************************************************)
(* C5  (as stated) size() equals the number of distinct keys ever          *)
(* inserted minus the number of successful removals, also when a key is    *)
(* inserted, removed and inserted again.                                   *)
(***************************************************************************)
C5_Original == treeSize["A"] = Cardinality(everInserted) - removals

(***************************************************************************)
(* C5  (amended) size() equals the number of insert calls that returned    *)
(* true minus the number of remove calls that returned true.               *)
(***************************************************************************)
C5_SizeIsInsertsMinusRemovals == treeSize["A"] = insertions - removals

\* A key has just been inserted again after its removal.
C5_Witness ==
  /\ Called("insert") /\ ret.result
  /\ removals >= 1
  /\ insertions > Cardinality(everInserted)

(***************************************************************************)
(* C6  Duplicate insert: insert(k, v2) of a stored key k, at any depth,    *)
(* returns false and leaves shape, keys, values, heights and size() as     *)
(* they were; get(k) still returns the first-inserted value.  insert       *)
(* returns false in no other case.                                         *)
(***************************************************************************)
C6_DuplicateInsertRejected ==
  Called("insert") =>
     /\ contains(Before, Arg(1)) = (~ret.result)
     /\ ~ret.result =>
           /\ root = pre.root
           /\ treeSize = pre.treeSize
           /\ heapNodes = pre.heapNodes
           /\ get(After, Arg(1)) = get(Before, Arg(1))
           /\ get(After, Arg(1)) = Some(ValueOf(ref[ret.obj], Arg(1)))

\* A rejected insert whose key sits below the root with another value.
C6_Witness ==
  /\ Called("insert") /\ ~ret.result
  /\ After.key # Arg(1)
  /\ get(After, Arg(1)) # Some(Arg(2))

(***************************************************************************)
(* C7  Map refinement: every insert and remove returns what the reference  *)
(* map returns, and after every call the (key, value) pairs of the tree    *)
(* are the reference map's, one node per key, so that contains(k) and      *)
(* get(k) agree with the reference for every k.                            *)
(***************************************************************************)
RefGet(m, k) == IF k \in RefKeys(m) THEN Some(ValueOf(m, k)) ELSE NullOpt

\* C7: results and contents of the tree equal those of the reference map.
C7_MapRefinement ==
  /\ ret.op \in Mutator => ret.result = refRet
  /\ \A t \in Objects :
        /\ Pairs(root[t]) = ref[t]
        /\ CountNodes(root[t]) = Cardinality(ref[t])
        /\ \A k \in KeySet :
              /\ contains(root[t], k) = (k \in RefKeys(ref[t]))
              /\ get(root[t], k) = RefGet(ref[t], k)

\* A remove that matched a node with two children.
C7_Witness ==
  /\ Called("remove") /\ ret.result
  /\ numChildren(getNode(Before, Arg(1))) = 2
  /\ treeSize[ret.obj] >= 3

(***************************************************************************)
(* C8  (as stated) after insert(k, v), for any k and v, contains(k) is     *)
(* true and get(k) is v; after remove(k) they are false and empty.         *)
(***************************************************************************)
C8_Original ==
  /\ Called("insert") =>
        contains(After, Arg(1)) /\ get(After, Arg(1)) = Some(Arg(2))
  /\ Called("remove") =>
        ~contains(After, Arg(1)) /\ get(After, Arg(1)) = NullOpt

(***************************************************************************)
(* C8  (amended) after insert(k, v), contains(k) returns true and get(k)   *)
(* returns v if the insert returned true, and the value stored before if   *)
(* it returned false; after a following remove(k) they return false and    *)
(* empty.  It holds of the tree and of the contains and get calls made     *)
(* right after.                                                            *)
(***************************************************************************)
RoundTripState ==
  /\ Called("insert") =>
        /\ contains(After, Arg(1))
        /\ ret.result => get(After, Arg(1)) = Some(Arg(2))
        /\ ~ret.result => get(After, Arg(1)) = get(Before, Arg(1))
  /\ Called("remove") =>
        ~contains(After, Arg(1)) /\ get(After, Arg(1)) = NullOpt

RoundTripCalls ==
  ret.op \in Mutator /\ ret'.op \in {"contains", "get"} /\ ret'.args[1] = Arg(1) =>
     /\ Called("insert") /\ ret'.op = "contains" => ret'.result = TRUE
     /\ Called("insert") /\ ret.result /\ ret'.op = "get" =>
           ret'.result = Some(Arg(2))
     /\ Called("insert") /\ ~ret.result /\ ret'.op = "get" =>
           ret'.result = get(Before, Arg(1))
     /\ Called("remove") /\ ret'.op = "contains" => ret'.result = FALSE
     /\ Called("remove") /\ ret'.op = "get" => ret'.result = NullOpt

\* A step RoundTripCalls speaks of goes from a mutator to an observer, so
\* ret.op changes in it.
\* C8 (amended): insert then contains/get, remove then contains/get.
C8_RoundTrip == []RoundTripState /\ [][RoundTripCalls]_(ret.op)

\* A rejected insert: get(k) is the stored value, not the one passed in.
C8_Witness ==
  /\ Called("insert") /\ ~ret.result
  /\ contains(After, Arg(1))
  /\ get(After, Arg(1)) = get(Before, Arg(1))
  /\ get(After, Arg(1)) # Some(Arg(2))

(***************************************************************************)
(* C9  remove(k) of a key that is not stored returns false and changes     *)
(* nothing: shape, keys, values, stored heights, the root and size() are   *)
(* as before, although updateHeight and balanceNode ran again on every     *)
(* visited node.  remove returns false in no other case.                   *)
(***************************************************************************)
C9_RemoveAbsentNoEffect ==
  Called("remove") =>
     /\ contains(Before, Arg(1)) = ret.result
     /\ ~ret.result =>
           /\ root = pre.root
           /\ treeSize = pre.treeSize
           /\ heapNodes = pre.heapNodes

\* A failed remove whose descent passed at least two nodes that lean.
C9_Witness ==
  /\ Called("remove") /\ ~ret.result
  /\ After # Nil /\ After.height >= 3
  /\ getBalance(After) # 0
  /\ LET child == IF StrLess(Arg(1), After.key) THEN After.left ELSE After.right
     IN  child # Nil /\ getBalance(child) # 0

(***************************************************************************)
(* C10  findRange(low, high) returns exactly the values of the stored keys *)
(* k with low <= k <= high, each once, in ascending order of the keys,     *)
(* and the empty sequence when no key qualifies, for any bounds, low >     *)
(* high included.                                                          *)
(***************************************************************************)
RangeRef(node, low, high) ==
  LET S == { k \in TreeKeys(node) : StrLeq(low, k) /\ StrLeq(k, high) }
      ks == SortedKeys(S)
  IN  [i \in 1..Len(ks) |-> ValueOf(Pairs(node), ks[i])]

\* C10: findRange returns the values of the keys in [low, high], ascending.
C10_FindRangeCorrect ==
  Called("findRange") =>
     /\ ret.result = RangeRef(After, Arg(1), Arg(2))
     /\ StrGreater(Arg(1), Arg(2)) => ret.result = <<>>

\* A range of two or more values with stored keys left out on both sides,
\* in a tree of height 3.
C10_Witness ==
  /\ Called("findRange")
  /\ Len(ret.result) >= 2
  /\ After.height >= 3
  /\ \E k \in TreeKeys(After) : StrLess(k, Arg(1))
  /\ \E k \in TreeKeys(After) : StrGreater(k, Arg(2))
(***************************************************************************)
(* C11  Range example: a tree holding the keys "1","3","5","7","9" with    *)
(* the values v1..v9, queried with the bounds ("3","7"), ("4","4") and     *)
(* ("0","100"), all of them std::string as the tree's KeyType is.          *)
(***************************************************************************)
Str0 == <<48>>
Str1 == <<49>>
Str3 == <<51>>
Str4 == <<52>>
Str5 == <<53>>
Str7 == <<55>>
Str9 == <<57>>
Str100 == <<49, 48, 48>>

RangeExampleKeys == {Str1, Str3, Str5, Str7, Str9}
RangeExampleBounds ==
  { <<Str3, Str7>>, <<Str4, Str4>>, <<Str0, Str100>>, <<Str0, Str9>> }

\* SpecRange: the example's keys inserted and removed in any order, and the
\* example's range queries.
NextRange ==
  \/ \E k \in RangeExampleKeys : Insert("A", k, EntryValue(k))
  \/ \E k \in RangeExampleKeys : Remove("A", k)
  \/ \E b \in RangeExampleBounds : FindRange("A", b[1], b[2])

SpecRange == Init /\ [][NextRange]_vars

HoldsExampleKeys == TreeKeys(root["A"]) = RangeExampleKeys
AllFiveValues ==
  << EntryValue(Str1), EntryValue(Str3), EntryValue(Str5), EntryValue(Str7),
     EntryValue(Str9) >>

\* C11 as stated: range(3,7) = [v3,v5,v7], range(4,4) = [] and range(0,100)
\* returns all five values in ascending key order.
C11_Original ==
  (Called("findRange") /\ HoldsExampleKeys) =>
     /\ ret.args = <<Str3, Str7>> =>
          ret.result = <<EntryValue(Str3), EntryValue(Str5), EntryValue(Str7)>>
     /\ ret.args = <<Str4, Str4>> => ret.result = <<>>
     /\ ret.args = <<Str0, Str100>> => ret.result = AllFiveValues

\* C11: on the tree holding "1","3","5","7","9", findRange("3","7") returns
\* [v3,v5,v7], findRange("4","4") returns the empty vector, findRange("0","100")
\* returns [v1] alone, "100" being smaller than "3" as a std::string, and
\* findRange("0","9") returns all five values in ascending key order.
C11_RangeExample ==
  (Called("findRange") /\ HoldsExampleKeys) =>
     /\ ret.args = <<Str3, Str7>> =>
          ret.result = <<EntryValue(Str3), EntryValue(Str5), EntryValue(Str7)>>
     /\ ret.args = <<Str4, Str4>> => ret.result = <<>>
     /\ ret.args = <<Str0, Str100>> => ret.result = <<EntryValue(Str1)>>
     /\ ret.args = <<Str0, Str9>> => ret.result = AllFiveValues

\* findRange("0","100") answered on the five-key tree.
C11_Witness ==
  /\ Called("findRange") /\ HoldsExampleKeys
  /\ ret.args = <<Str0, Str100>>
  /\ Len(ret.result) = 1
(***************************************************************************)
(* C12  Two-child removal example: "10","5","15","3","7","12","20"         *)
(* inserted in this order into an empty tree, then remove("10").           *)
(***************************************************************************)
Str10 == <<49, 48>>
Str12 == <<49, 50>>
Str15 == <<49, 53>>
Str20 == <<50, 48>>

\* The tree after inserting the keys of seq, in order, below node.
RECURSIVE InsertAll(_, _)
InsertAll(node, seq) ==
  IF seq = <<>> THEN node
  ELSE InsertAll(insert(node, Head(seq), EntryValue(Head(seq))).node, Tail(seq))

\* The example's keys in the example's order.
ExampleTree ==
  InsertAll(Nil, <<Str10, Str5, Str15, Str3, Str7, Str12, Str20>>)

\* Seven keys inserted as 4th, 2nd, 6th, 1st, 3rd, 5th and 7th smallest under
\* std::string order, the ranks the example's numbers have among themselves:
\* "10" < "12" < "15" < "20" < "3" < "5" < "7".
RankedTree ==
  InsertAll(Nil, <<Str20, Str12, Str5, Str10, Str15, Str3, Str7>>)

\* C12 as stated: the node of 10 has two children, remove(10) returns true,
\* the new root key is 12, 12 is gone from the right subtree and the balance
\* invariant holds.
C12_Original ==
  (Called("remove") /\ Before = ExampleTree /\ Arg(1) = Str10) =>
     /\ numChildren(getNode(Before, Str10)) = 2
     /\ ret.result = TRUE
     /\ After.key = Str12
     /\ Str12 \notin TreeKeys(After.right)
     /\ Balanced(After)

\* C12: after the example's insertions the root is "15" and the node of "10"
\* is its left child with the single child "12"; remove("10") returns true,
\* puts "12" where "10" was, and the right-left double rotation at "15" that
\* follows makes "3" the root over "15" (with "12" and "20") and "5" (with
\* "7").  After seven keys
\* inserted as 4th, 2nd, 6th, 1st, 3rd, 5th, 7th smallest in std::string
\* order, the 4th smallest is the root with two children, and removing it
\* returns true, makes the 5th smallest (the in-order successor) the root
\* and removes the successor from the right subtree.  Either way the other
\* six entries stay and the balance invariant holds.
C12_TwoChildExample ==
  /\ (Called("remove") /\ Before = ExampleTree /\ Arg(1) = Str10) =>
        /\ Before.key = Str15
        /\ Before.left.key = Str10
        /\ numChildren(Before.left) = 1
        /\ ret.result = TRUE
        /\ After.key = Str3
        /\ After.left.key = Str15
        /\ After.left.left = Before.left.right
        /\ After.left.left.key = Str12
        /\ After.left.right.key = Str20
        /\ After.right.key = Str5
        /\ Pairs(After) = Pairs(Before) \ {<<Str10, EntryValue(Str10)>>}
        /\ Balanced(After)
  /\ (Called("remove") /\ Before = RankedTree /\ Arg(1) = Str20) =>
        /\ Before.key = Str20
        /\ numChildren(Before) = 2
        /\ findMin(Before.right).key = Str3
        /\ ret.result = TRUE
        /\ After.key = Str3
        /\ After.left = Before.left
        /\ Str3 \notin TreeKeys(After.right)
        /\ Pairs(After) = Pairs(Before) \ {<<Str20, EntryValue(Str20)>>}
        /\ Balanced(After)

\* remove("10") has returned on the tree of the example's insertions.
C12_Witness ==
  /\ Called("remove") /\ Before = ExampleTree /\ Arg(1) = Str10
  /\ CountNodes(After) = 6
(***************************************************************************)
(* C13  Indexed access: what operator[] does with a missing key and with   *)
(* a stored key.                                                           *)
(***************************************************************************)
\* SpecIndex: insert, remove and operator[] on one tree, until a crash.
NextIndex ==
  \/ \E k \in CountKeySet : Running /\ Insert("A", k, EntryValue(k))
  \/ \E k \in CountKeySet : Running /\ Remove("A", k)
  \/ \E k \in CountKeySet : Running /\ Index("A", k)

SpecIndex == Init /\ [][NextIndex]_vars

\* C13: operator[](k) with k not stored inserts k with the value 0 (size()
\* grows by one, contains(k) becomes true, the AVL invariants are kept) and
\* returns the reference to the new value; with k stored it returns the
\* reference to the stored value and changes nothing.
C13_IndexedAccess ==
  Called("operator[]") =>
     IF ~contains(Before, Arg(1))
       THEN /\ ret.result = Reference(Arg(1), 0)
            /\ contains(After, Arg(1))
            /\ get(After, Arg(1)) = Some(0)
            /\ treeSize[ret.obj] = pre.treeSize[ret.obj] + 1
            /\ Balanced(After) /\ Ordered(After) /\ HeightsCorrect(After)
       ELSE /\ ret.result = Reference(Arg(1), getNode(Before, Arg(1)).value)
            /\ After = Before
            /\ treeSize = pre.treeSize
            /\ heapNodes = pre.heapNodes
(***************************************************************************)
(* C14  Copy independence: with B made from A by copy construction or      *)
(* assignment, insert and remove on one of the two leave the other's       *)
(* keys(), values and size() as they were, and no node belongs to both.    *)
(***************************************************************************)
RECURSIVE NodesOf(_)
NodesOf(S) ==
  IF S = {} THEN 0
  ELSE LET t == CHOOSE x \in S : TRUE
       IN  CountNodes(root[t]) + NodesOf(S \ {t})

\* C14: an insert or remove on one tree leaves every other tree's root
\* (keys, values, shape), keys() listing and treeSize unchanged, and the
\* AVLNode objects alive are as many as the nodes of all trees together, so
\* that no node is reachable from two roots.
C14_CopyIndependence ==
  /\ ret.op \in Mutator =>
        \A u \in Objects \ {ret.obj} :
           /\ root[u] = pre.root[u]
           /\ getKeys(root[u], <<>>) = getKeys(pre.root[u], <<>>)
           /\ Pairs(root[u]) = Pairs(pre.root[u])
           /\ treeSize[u] = pre.treeSize[u]
  /\ heapNodes = NodesOf(Objects)

\* B held a copy of the non-empty A, and a successful insert or remove on B
\* made it differ from A.
C14_Witness ==
  /\ Objects = {"A", "B"}
  /\ ret.op \in Mutator /\ ret.obj = "B" /\ ret.result
  /\ pre.root["A"] # Nil
  /\ pre.root["B"] = pre.root["A"]
  /\ root["B"] # root["A"]
  /\ root["A"] = pre.root["A"]
(***************************************************************************)
(* C15  Logarithmic height: after n insertions with strictly ascending     *)
(* keys getHeight() is at most ceil(1.44 * log2(n + 2)), and it is not n   *)
(* once n >= 3.                                                            *)
(***************************************************************************)
\* SpecAscending: every inserted key is larger than all keys stored.
NextAscending ==
  \E k \in KeySet :
     /\ \A j \in TreeKeys(root["A"]) : StrLess(j, k)
     /\ Insert("A", k, EntryValue(k))

SpecAscending == Init /\ [][NextAscending]_vars

\* Natural numbers of any size: the digits to the base 10000, lowest first.
RECURSIVE BigTimes(_, _, _)
BigTimes(x, c, carry) ==
  IF x = <<>>
    THEN IF carry = 0 THEN <<>> ELSE <<carry>>
  ELSE LET p == Head(x) * c + carry
       IN  <<p % 10000>> \o BigTimes(Tail(x), c, p \div 10000)

RECURSIVE BigPower(_, _)
BigPower(b, e) == IF e = 0 THEN <<1>> ELSE BigTimes(BigPower(b, e - 1), b, 0)

RECURSIVE BigGeq(_, _)
BigGeq(x, y) ==
  IF Len(x) # Len(y) THEN Len(x) > Len(y)
  ELSE IF x = <<>> THEN TRUE
  ELSE IF x[Len(x)] # y[Len(y)] THEN x[Len(x)] > y[Len(y)]
  ELSE BigGeq(SubSeq(x, 1, Len(x) - 1), SubSeq(y, 1, Len(y) - 1))

\* h >= 1.44 * log2(m), that is 2^(25 h) >= m^36, or 32^(5 h) >= (m^3)^12.
AtLeastLogBound(h, m) == BigGeq(BigPower(32, 5 * h), BigPower(m * m * m, 12))

\* ceil(1.44 * log2(n + 2))
HeightBound(n) ==
  CHOOSE h \in 0..(n + 2) :
    /\ AtLeastLogBound(h, n + 2)
    /\ \A g \in 0..(h - 1) : ~AtLeastLogBound(g, n + 2)

\* C15: in every state of an ascending insertion sequence, with n keys
\* inserted, getHeight() <= ceil(1.44 * log2(n + 2)), and getHeight() # n
\* when n >= 3.
C15_LogarithmicHeight ==
  LET n == treeSize["A"]
  IN  /\ getHeight(root["A"]) <= HeightBound(n)
      /\ n >= 3 => getHeight(root["A"]) # n

\* Six or more ascending insertions, and the tree is three levels high.
C15_Witness ==
  /\ treeSize["A"] >= 6
  /\ Called("insert") /\ ret.result
  /\ getHeight(root["A"]) = 3
(***************************************************************************)
(* C16  Copy fidelity: a tree made by copy construction or assignment,     *)
(* onto an empty or non-empty target or onto itself, has the shape, keys,  *)
(* values and stored heights of its source and the source's size(), and    *)
(* the source is unchanged.                                                *)
(***************************************************************************)
Copied == (Called("AVLTree") /\ ret.args # <<>>) \/ Called("operator=")

\* C16: after AVLTree t(other) or t = other, root[t] equals, node for node
\* with key, value and stored height, the root other had before the call,
\* treeSize[t] is other's, and other's root and treeSize are as before.
C16_CopyFidelity ==
  Copied =>
     /\ root[ret.obj] = pre.root[Arg(1)]
     /\ treeSize[ret.obj] = pre.treeSize[Arg(1)]
     /\ root[Arg(1)] = pre.root[Arg(1)]
     /\ treeSize[Arg(1)] = pre.treeSize[Arg(1)]

\* An assignment onto a non-empty tree that held something else than its
\* source, the source being three levels high.
C16_Witness ==
  /\ Called("operator=") /\ ret.obj # Arg(1)
  /\ pre.root[ret.obj] # Nil
  /\ pre.root[ret.obj] # pre.root[Arg(1)]
  /\ getHeight(root[ret.obj]) >= 3
  /\ root[ret.obj].left # Nil /\ root[ret.obj].right # Nil
(***************************************************************************)
(* C17  Two-child removal: the matched node takes the key and value of     *)
(* the minimum of its right subtree, the successor is removed from the     *)
(* right subtree as a leaf or one-child node, one node is deleted, and     *)
(* every node from the successor's parent up to the root gets its height   *)
(* recomputed and is rebalanced.                                           *)
(***************************************************************************)
\* The keys of the nodes from node down to the node of key.
RECURSIVE PathKeys(_, _)
PathKeys(node, key) ==
  IF node = Nil THEN {}
  ELSE IF StrLess(key, node.key) THEN {node.key} \cup PathKeys(node.left, key)
  ELSE IF StrGreater(key, node.key) THEN {node.key} \cup PathKeys(node.right, key)
  ELSE {node.key}

\* The balanceNode calls of the last public insert or remove.
BalanceCalls ==
  IF Called("insert") THEN insertBalanceArgs(Before, Arg(1), Arg(2))
  ELSE IF Called("remove") THEN removeBalanceArgs(Before, Arg(1))
  ELSE {}

TwoChildRemoval ==
  /\ Called("remove") /\ ret.result
  /\ numChildren(getNode(Before, Arg(1))) = 2

\* C17: when remove(k) matched a node m with two children and s is the
\* minimum of m's right subtree: s has no left child and is the node the
\* recursive remove matches; m's slot then holds s's key and value over m's
\* left subtree and over m's right subtree without s; exactly one AVLNode
\* is deleted; the tree holds the entries it held except k's; balanceNode
\* was called, with the height recomputed, on the node in m's slot, on every
\* node between m and s and on every node above m; and the tree is ordered
\* and balanced with correct heights.
C17_TwoChildRemoval ==
  TwoChildRemoval =>
     LET k == Arg(1)
         m == getNode(Before, k)
         s == findMin(m.right)
         r == removeNode(m)
     IN  /\ s.left = Nil
         /\ getNode(m.right, s.key) = s
         /\ r.ret /\ r.deletes = 1
         /\ r.node.key = s.key /\ r.node.value = s.value
         /\ r.node.left = m.left
         /\ Pairs(r.node.right) = Pairs(m.right) \ {<<s.key, s.value>>}
         /\ heapNodes = pre.heapNodes - 1
         /\ CountNodes(After) = CountNodes(Before) - 1
         /\ Pairs(After) = Pairs(Before) \ {<<k, m.value>>}
         /\ ((PathKeys(Before, k) \ {k}) \cup PathKeys(m.right, s.key))
               \subseteq { x.key : x \in BalanceCalls }
         /\ HeightsCorrect(After) /\ Balanced(After) /\ Ordered(After)

\* The successor was the left child of the matched node's right child and
\* had a right child of its own.
C17_Witness ==
  /\ TwoChildRemoval
  /\ getNode(Before, Arg(1)).right.left # Nil
  /\ numChildren(findMin(getNode(Before, Arg(1)).right)) = 1
(***************************************************************************)
(* C18  Rotation selection in balanceNode(N), b the balance factor of N:   *)
(* nothing for |b| <= 1; for b > 1 a single right rotation when the left   *)
(* child's balance is >= 0 and a left-right double rotation otherwise; for *)
(* b < -1 a single left rotation when the right child's balance is <= 0    *)
(* and a right-left double rotation otherwise; the result is an AVL tree.  *)
(***************************************************************************)
\* C18: for every node N that an insert or remove passed to balanceNode, the
\* node left in N's slot is N itself, the single rotation of N or the double
\* rotation of N as the balance factors of N and of the child on its heavy
\* side select, a child with balance factor zero selecting the single
\* rotation, and it is an ordered, balanced subtree with correct heights.
C18_RotationSelection ==
  \A N \in BalanceCalls :
     LET b == getBalance(N)
         out == balanceNode(N)
     IN  /\ b \in {-1, 0, 1} => out = N
         /\ b > 1 =>
              out = IF getBalance(N.left) >= 0
                      THEN rotateRight(N)
                      ELSE rotateRight([N EXCEPT !.left = rotateLeft(N.left)])
         /\ b < -1 =>
              out = IF getBalance(N.right) <= 0
                      THEN rotateLeft(N)
                      ELSE rotateLeft([N EXCEPT !.right = rotateRight(N.right)])
         /\ Balanced(out) /\ HeightsCorrect(out) /\ Ordered(out)
         /\ Pairs(out) = Pairs(N)

\* A remove left a node with balance factor +2 whose left child has balance
\* factor zero: the tie that the single rotation settles.
C18_Witness ==
  /\ Called("remove")
  /\ \E N \in BalanceCalls : getBalance(N) = 2 /\ getBalance(N.left) = 0
(***************************************************************************)
(* C19  rotateLeft and rotateRight keep the in-order sequence of           *)
(* (key, value) pairs and the node count; the right (left) child becomes   *)
(* the subtree root, the old root its left (right) child, the moved        *)
(* child's inner subtree the old root's right (left) subtree; both stored  *)
(* heights are correct afterwards.                                         *)
(***************************************************************************)
RECURSIVE InOrder(_)
InOrder(node) ==
  IF node = Nil THEN <<>>
  ELSE InOrder(node.left) \o <<<<node.key, node.value>>>> \o InOrder(node.right)

HeightOk(x) ==
  /\ x.height = 1 + Max(StoredHeight(x.left), StoredHeight(x.right))
  /\ x.height = TrueHeight(x)

\* The rotations of the last public insert or remove.
RotateLeftCalls == UNION { rotateLeftArgs(N) : N \in BalanceCalls }
RotateRightCalls == UNION { rotateRightArgs(N) : N \in BalanceCalls }

\* C19: for every node X an insert or remove passed to rotateLeft, Y being
\* the result: the in-order (key, value) sequence and the node count of Y
\* are those of X; Y carries the entry of X's right child, Y.left the entry
\* of X with X's left subtree on its left and the right child's left subtree
\* on its right, Y.right is the right child's right subtree; the stored
\* heights of Y.left and Y are correct.  The mirror image for rotateRight.
C19_RotationsPreserve ==
  /\ \A X \in RotateLeftCalls :
        LET Y == rotateLeft(X)
        IN  /\ InOrder(Y) = InOrder(X)
            /\ CountNodes(Y) = CountNodes(X)
            /\ Y.key = X.right.key /\ Y.value = X.right.value
            /\ Y.left.key = X.key /\ Y.left.value = X.value
            /\ Y.left.left = X.left
            /\ Y.left.right = X.right.left
            /\ Y.right = X.right.right
            /\ HeightOk(Y.left) /\ HeightOk(Y)
  /\ \A X \in RotateRightCalls :
        LET Y == rotateRight(X)
        IN  /\ InOrder(Y) = InOrder(X)
            /\ CountNodes(Y) = CountNodes(X)
            /\ Y.key = X.left.key /\ Y.value = X.left.value
            /\ Y.right.key = X.key /\ Y.right.value = X.value
            /\ Y.right.right = X.right
            /\ Y.right.left = X.left.right
            /\ Y.left = X.left.left
            /\ HeightOk(Y.right) /\ HeightOk(Y)

\* A left rotation that handed a non-empty subtree over to the old root, in
\* a call that also rotated right.
C19_Witness ==
  /\ \E X \in RotateLeftCalls : X.right.left # Nil /\ X.left # Nil
  /\ RotateRightCalls # {}
(***************************************************************************)
(* C20  Rebalancing preconditions: whenever an insert or remove calls      *)
(* balanceNode(N), both subtrees of N satisfy the AVL invariant and N's    *)
(* balance factor is in [-2, +2]; rotateLeft is only called on a node with *)
(* a right child and rotateRight only on a node with a left child.         *)
(***************************************************************************)
AVLSubtree(node) == Balanced(node) /\ HeightsCorrect(node) /\ Ordered(node)

\* C20: every node N passed to balanceNode by the last insert or remove has
\* two AVL subtrees, a correct stored height and a balance factor between -2
\* and +2; every node passed to rotateLeft has a right child and every node
\* passed to rotateRight a left child, so that no rotation dereferences a
\* null pointer.
C20_RebalancePreconditions ==
  /\ \A N \in BalanceCalls :
        /\ AVLSubtree(N.left) /\ AVLSubtree(N.right)
        /\ N.height = 1 + Max(StoredHeight(N.left), StoredHeight(N.right))
        /\ getBalance(N) \in -2..2
        /\ balanceNode(N) # NullDeref
  /\ \A X \in RotateLeftCalls : X.right # Nil /\ X.right # NullDeref
  /\ \A X \in RotateRightCalls : X.left # Nil /\ X.left # NullDeref

\* A call with three or more balanceNode calls, one of them on a node with
\* balance factor -2 or +2 and another on a node with nothing to do.
C20_Witness ==
  /\ \E N \in BalanceCalls : getBalance(N) \in {-2, 2}
  /\ \E N \in BalanceCalls : getBalance(N) \in {-1, 0, 1}
  /\ Cardinality(BalanceCalls) >= 3
====
